---- MODULE Spec2Model ----
(***************************************************************************)
(* RepoStandardsAgent (archive/agentsPart2/repo_standards_agent.py).       *)
(*                                                                         *)
(* The agent is a class with one field, repo_path, set by the constructor, *)
(* and six methods whose bodies are the single statement `pass`: each      *)
(* returns None, raises nothing, calls nothing, reads and writes nothing.  *)
(* The model keeps the agent, the repository the path designates (the      *)
(* files and history the docstrings talk about) and a log of the calls     *)
(* made so far with what each returned and what it left on disk.           *)
(***************************************************************************)
EXTENDS Integers, Sequences, FiniteSets

VARIABLES
    arg,        \* the argument the constructor was called with
    repo_path,  \* self.repo_path
    fs,         \* files present under the repository root
    hasHistory, \* the repository has at least one commit
    autoGen,    \* auto-generation of missing files is enabled in configuration
    raised,     \* an exception has propagated to the caller
    log         \* calls completed so far: what was called, returned, changed

vars == <<arg, repo_path, fs, hasHistory, autoGen, raised, log>>

\* Bound on the number of method calls explored.
MaxCalls == 4

----------------------------------------------------------------------------
(* The environment: paths and repository contents.                         *)

GoodPath    == "../ProjectPlannerAppClean"
MissingPath == "/no/such/dir"
Paths       == {GoodPath, MissingPath}

\* The root path exists and is readable.
PathOk(p) == p = GoodPath

GitDir    == ".git"
GitIgnore == ".gitignore"
CIFile    == ".github/workflows/ci.yml"
LargeFile == "assets/video.bin"      \* a directly tracked file above the size threshold
Files     == {GitDir, GitIgnore, CIFile, LargeFile}

\* Files auto-generation is allowed to create.
Generated == {GitIgnore, CIFile}

----------------------------------------------------------------------------
(* Values the methods return.                                              *)

None == [kind |-> "None"]

Finding(name, status, message, fixed) ==
    [kind |-> "Finding", check_name |-> name, status |-> status,
     message |-> message, auto_fixed |-> fixed]

Checks == <<"scan_gitignore", "scan_ci_workflow", "scan_branch_structure",
            "scan_large_files", "scan_commit_hygiene">>

----------------------------------------------------------------------------
(* The methods.  Each takes the agent (self) and the files on disk and     *)
(* gives the outcome of one call: the value returned, whether it raised,   *)
(* the agent and the files afterwards, and the checks it invoked.          *)

Agent(p) == [repo_path |-> p]

\* def __init__(self, repo_path): self.repo_path = repo_path
init(p) == [self |-> Agent(p), raised |-> FALSE]

\* The body `pass`: falls off the end of the function.
Pass(self, files) ==
    [ret |-> None, raised |-> FALSE, self |-> self, fs |-> files, ran |-> <<>>]

\* A scan_gitignore that writes the default .gitignore whenever it is
\* missing, whatever the configuration says.
scan_gitignore_always_generates(self, files) ==
    [ret    |-> IF GitIgnore \in files
                THEN Finding("scan_gitignore", "PASS", "present", FALSE)
                ELSE Finding("scan_gitignore", "PASS", "generated", TRUE),
     raised |-> FALSE, self |-> self,
     fs     |-> files \cup {GitIgnore}, ran |-> <<>>]

scan_gitignore(self, files) == Pass(self, files)

scan_ci_workflow(self, files) == Pass(self, files)

\* A scan_branch_structure that rebinds self.repo_path to the .git directory
\* it inspected.
scan_branch_structure_rebinds(self, files) ==
    [ret |-> None, raised |-> FALSE, self |-> Agent(GitDir),
     fs |-> files, ran |-> <<>>]

scan_branch_structure(self, files) == Pass(self, files)

scan_large_files(self, files) == Pass(self, files)

scan_commit_hygiene(self, files) == Pass(self, files)

generate_report(self, files) == Pass(self, files)

----------------------------------------------------------------------------
(* The state machine.                                                      *)

\* agent = RepoStandardsAgent(repo_path=arg) has just returned.
Init ==
    /\ arg \in Paths
    /\ repo_path = init(arg).self.repo_path
    /\ raised = init(arg).raised
    /\ fs \in IF PathOk(arg) THEN SUBSET Files ELSE {{}}
    /\ hasHistory \in IF GitDir \in fs THEN BOOLEAN ELSE {FALSE}
    /\ autoGen \in BOOLEAN
    /\ log = <<>>

\* One completed call of a method: its outcome is applied to the agent and
\* the disk, and recorded.
Call(op, out) ==
    /\ ~raised
    /\ Len(log) < MaxCalls
    /\ repo_path' = out.self.repo_path
    /\ fs' = out.fs
    /\ raised' = out.raised
    /\ log' = Append(log, [op |-> op, ret |-> out.ret, raised |-> out.raised,
                           pre |-> fs, post |-> out.fs, ran |-> out.ran])
    /\ UNCHANGED <<arg, hasHistory, autoGen>>

ScanGitignore ==
    Call("scan_gitignore", scan_gitignore(Agent(repo_path), fs))

ScanCiWorkflow ==
    Call("scan_ci_workflow", scan_ci_workflow(Agent(repo_path), fs))

ScanBranchStructure ==
    Call("scan_branch_structure", scan_branch_structure(Agent(repo_path), fs))

ScanLargeFiles ==
    Call("scan_large_files", scan_large_files(Agent(repo_path), fs))

ScanCommitHygiene ==
    Call("scan_commit_hygiene", scan_commit_hygiene(Agent(repo_path), fs))

GenerateReport ==
    Call("generate_report", generate_report(Agent(repo_path), fs))

Next ==
    \/ ScanGitignore
    \/ ScanCiWorkflow
    \/ ScanBranchStructure
    \/ ScanLargeFiles
    \/ ScanCommitHygiene
    \/ GenerateReport

Spec == Init /\ [][Next]_vars

----------------------------------------------------------------------------
(* Vocabulary of the properties.                                           *)

Calls == 1..Len(log)

IsFinding(r) == r.kind = "Finding"
IsReport(r)  == r.kind = "Report"

Sev(s) == CASE s = "PASS" -> 0 [] s = "WARN" -> 1 [] s = "FAIL" -> 2

\* r is a Finding with status s and a non-empty message.
FindingWith(r, s) == IsFinding(r) /\ r.status = s /\ r.message /= ""

\* A check that cannot run on the repository as it was before the call:
\* the root is not a repository, or the history it reads is unavailable.
CannotRun(op, pre) ==
    \/ op \in {"scan_branch_structure", "scan_large_files", "scan_commit_hygiene"}
       /\ GitDir \notin pre
    \/ op = "scan_commit_hygiene" /\ ~hasHistory

IsCheck(op) == \E k \in 1..Len(Checks) : Checks[k] = op

----------------------------------------------------------------------------
(* C1: the Report returned by generate_report has an overall status equal  *)
(* to the maximum of the statuses of its five Findings under the order     *)
(* PASS < WARN < FAIL.                                                     *)
C1_OverallIsWorstStatus ==
    \A i \in Calls :
        log[i].op = "generate_report" =>
            /\ IsReport(log[i].ret)
            /\ Len(log[i].ret.findings) = 5
            /\ \E k \in 1..5 :
                   log[i].ret.overall = log[i].ret.findings[k].status
            /\ \A k \in 1..5 :
                   Sev(log[i].ret.findings[k].status) <= Sev(log[i].ret.overall)

(* C2: once the root path exists and is readable a scan always completes   *)
(* and returns a Report; every check that cannot run yields a Finding with *)
(* status FAIL and a message instead of raising, and nothing raises.       *)
C2_ScanCompletesWithFailFindings ==
    PathOk(arg) =>
        /\ ~raised
        /\ \A i \in Calls :
               /\ ~log[i].raised
               /\ log[i].op = "generate_report" => IsReport(log[i].ret)
               /\ IsCheck(log[i].op) /\ CannotRun(log[i].op, log[i].pre) =>
                      FindingWith(log[i].ret, "FAIL")

(* C3: scan_gitignore on a root with no .gitignore creates the file and    *)
(* returns PASS with auto_fixed=true when auto-generation is enabled,      *)
(* returns WARN and creates nothing when it is disabled, and returns PASS  *)
(* with auto_fixed=false when the .gitignore is already present.           *)
C3_GitignoreCheck ==
    \A i \in Calls :
        log[i].op = "scan_gitignore" /\ PathOk(arg) =>
            /\ GitIgnore \notin log[i].pre /\ autoGen =>
                   /\ GitIgnore \in log[i].post
                   /\ FindingWith(log[i].ret, "PASS")
                   /\ log[i].ret.auto_fixed
            /\ GitIgnore \notin log[i].pre /\ ~autoGen =>
                   /\ log[i].post = log[i].pre
                   /\ FindingWith(log[i].ret, "WARN")
            /\ GitIgnore \in log[i].pre =>
                   /\ FindingWith(log[i].ret, "PASS")
                   /\ ~log[i].ret.auto_fixed

(* C4: scan_large_files returns a Finding with status FAIL whenever a      *)
(* directly tracked file above the size threshold is in the working tree,  *)
(* and does not return FAIL for that reason when there is none.            *)
C4_LargeFileFails ==
    \A i \in Calls :
        log[i].op = "scan_large_files" /\ GitDir \in log[i].pre =>
            (LargeFile \in log[i].pre <=> FindingWith(log[i].ret, "FAIL"))

(* C5: scan_commit_hygiene on a repository with no commit history returns  *)
(* a Finding with status FAIL and a non-empty message, and does not raise. *)
C5_NoHistoryFails ==
    \A i \in Calls :
        log[i].op = "scan_commit_hygiene" /\ GitDir \in log[i].pre /\ ~hasHistory =>
            ~log[i].raised /\ FindingWith(log[i].ret, "FAIL")

(* C6: with auto-generation disabled, repeating a call on the unchanged    *)
(* repository returns the same value as before, and no call leaves         *)
(* anything behind on disk that could change a later result.               *)
C6_RepeatedScanIdentical ==
    ~autoGen =>
        /\ \A i \in Calls : log[i].post = log[i].pre
        /\ \A i \in Calls : \A j \in Calls :
               log[i].op = log[j].op => log[i].ret = log[j].ret

C6_Witness ==
    /\ ~autoGen /\ PathOk(arg) /\ GitIgnore \notin fs
    /\ \E i \in Calls : \E j \in Calls :
           i < j /\ log[i].op = "scan_gitignore" /\ log[j].op = "scan_gitignore"
    /\ \E i \in Calls : \E j \in Calls :
           i < j /\ log[i].op = "generate_report" /\ log[j].op = "generate_report"

(* C7: the invocation ends in a terminal error if and only if the root     *)
(* path does not exist or is not readable, and then before any check has   *)
(* run.                                                                    *)
C7_TerminalErrorIffBadRoot ==
    /\ raised <=> ~PathOk(arg)
    /\ raised => log = <<>>

(* C8: generate_report runs the five checks exactly once each in the fixed *)
(* order, and the Report holds exactly five Findings in that order, each   *)
(* produced by the corresponding check.                                    *)
C8_ReportRunsFiveChecksInOrder ==
    \A i \in Calls :
        log[i].op = "generate_report" =>
            /\ log[i].ran = Checks
            /\ IsReport(log[i].ret)
            /\ Len(log[i].ret.findings) = Len(Checks)
            /\ \A k \in 1..Len(Checks) :
                   log[i].ret.findings[k].check_name = Checks[k]

(* C9: with auto-generation disabled no call creates or removes a file;    *)
(* with it enabled a call may only add a missing .gitignore or CI workflow *)
(* file; and every Finding with auto_fixed=true comes with such a creation *)
(* made while auto-generation is enabled.                                  *)
C9_OnlyGeneratedFilesWritten ==
    \A i \in Calls :
        /\ ~autoGen => log[i].post = log[i].pre
        /\ autoGen => /\ log[i].pre \subseteq log[i].post
                      /\ (log[i].post \ log[i].pre) \subseteq Generated
        /\ IsFinding(log[i].ret) /\ log[i].ret.auto_fixed =>
               autoGen /\ (log[i].post \ log[i].pre) /= {}

C9_Witness ==
    /\ ~autoGen /\ PathOk(arg)
    /\ \E i \in Calls : log[i].op = "scan_gitignore" /\ GitIgnore \notin log[i].pre
    /\ \E i \in Calls : log[i].op = "scan_ci_workflow" /\ CIFile \notin log[i].pre

(* C10: repo_path equals the constructor argument after construction and   *)
(* after any sequence of calls of the six methods.                         *)
C10_RepoPathIsConstructorArgument ==
    repo_path = arg

C10_Witness ==
    /\ Len(log) >= 3
    /\ \E i \in Calls : log[i].op = "scan_branch_structure"
    /\ \E i \in Calls : log[i].op = "generate_report"
    /\ \E i \in Calls : \E j \in Calls : i /= j /\ log[i].op = log[j].op

====
